---- MODULE Spec2Model ----
(***************************************************************************)
(* kube-dethrottler: the tainting controller (internal/controller), the    *)
(* load normalisation (internal/load) and the node-taint client            *)
(* (internal/kubernetes), as a state machine.                              *)
(*                                                                         *)
(* Time is an integer clock.  A load figure is a rational [num, den], so   *)
(* that dividing by the core count is a real division and not the          *)
(* identity.  In Spec one poll tick is one action: the wait at the select, *)
(* the sample, the evaluation and the (at most one) store call it makes.   *)
(* RunSpec splits a step at its store call, so that cancel() can come      *)
(* while the call is in flight; EvalSpec applies the evaluation alone.     *)
(***************************************************************************)
EXTENDS Integers, Sequences, FiniteSets, TLC

VARIABLES
    config,         \* *config.Config handed to NewController
    cpuCount,       \* Controller.cpuCount
    tainted,        \* Controller.tainted
    lastTaintTime,  \* Controller.lastTaintTime
    pc,             \* where Run is: "new", "loop", "done", "fatal"
    cancelled,      \* whether the context passed to Run is cancelled
    now,            \* the wall clock
    nodeTaints,     \* node.Spec.Taints of the governed node, in the API server
    last,           \* record of the most recent step of Run
    prev,           \* summary of the step before it
    startup,        \* what the initial HasTaint reported, and when Run went on
    lastOverload,   \* when an overload was last observed (history)
    request,        \* the call the store client is in, when its steps are told apart
    loaded,         \* the configuration being loaded or validated, and the outcome
    NodeTainted,    \* metrics.NodeTainted: the series of the gauge vector
    TaintOperations \* metrics.TaintOperations: the series of the counter vector

vars == <<config, cpuCount, tainted, lastTaintTime, pc, cancelled, now,
          nodeTaints, last, prev, startup, lastOverload, request, loaded,
          NodeTainted, TaintOperations>>

---------------------------------------------------------------------------
(* Bounds of the model *)

MaxTime == 4          \* the clock stops advancing here
MaxCooldown == 2      \* cooldownPeriod ranges over 1..MaxCooldown

CPUCounts == {1, 2}   \* what runtime.NumCPU() may have returned
WaitTimes == {0, 1}   \* time from the end of a step to the next tick
CallTimes == {0, 1}   \* time a store call takes before the clock is read again

---------------------------------------------------------------------------
(* Values *)

ZeroTime == 0         \* the zero time.Time of an unset lastTaintTime
StartTime == 1        \* the clock when the Controller is constructed

Rat(n, d) == [num |-> n, den |-> d]
\* a > b for rationals with positive denominators
Gt(a, b) == a.num * b.den > b.num * a.den

LoadValues == {2, 6}

\* the load figures of the samples: none, one or all of the periods high
Averages ==
    { a \in [Load1m : LoadValues, Load5m : LoadValues, Load15m : LoadValues] :
        Cardinality({p \in {"Load1m", "Load5m", "Load15m"} : a[p] = 6}) # 2 }
NilAverages == [Load1m |-> 0, Load5m |-> 0, Load15m |-> 0]
\* what ReadLoadAvg returns: (averages, nil) or (nil, error)
ReadError == [err |-> TRUE, avg |-> NilAverages]
Samples == [err : {FALSE}, avg : Averages] \cup {ReadError}

Thresholds(t1, t5, t15) == [Load1m |-> t1, Load5m |-> t5, Load15m |-> t15]
\* one period enabled, two enabled, none enabled
ThresholdSets == { Thresholds(2, 0, 0), Thresholds(0, 2, 2), Thresholds(0, 0, 0) }

ManagedKey == "kube-dethrottler/high-load"
OtherKey == "other-key"
ManagedEffect == "NoSchedule"
OtherEffect == "NoExecute"

Taint(k, v, e) == [key |-> k, value |-> v, effect |-> e]

InitialTaintLists ==
    { <<>>,
      << Taint(ManagedKey, "high-load", ManagedEffect) >>,
      << Taint(OtherKey, "y", ManagedEffect), Taint(ManagedKey, "x", OtherEffect) >> }

Configs ==
    [ NodeName : {"node-1"},
      TaintKey : {ManagedKey},
      TaintEffect : {ManagedEffect},
      Thresholds : ThresholdSets,
      CooldownPeriod : 1..MaxCooldown ]

\* a configuration whose node name could not be resolved
UnnamedConfig ==
    [ NodeName |-> "", TaintKey |-> ManagedKey, TaintEffect |-> ManagedEffect,
      Thresholds |-> Thresholds(2, 0, 0),
      CooldownPeriod |-> 1 ]

---------------------------------------------------------------------------
(* internal/load *)

M_NormalizeLoadAverages_NoGuard(avg, cpus) ==
    [Load1m |-> Rat(avg.Load1m, cpus), Load5m |-> Rat(avg.Load5m, cpus),
     Load15m |-> Rat(avg.Load15m, cpus)]

NormalizeLoadAverages(avg, cpus) ==
    IF cpus <= 0
    THEN [Load1m |-> Rat(avg.Load1m, 1), Load5m |-> Rat(avg.Load5m, 1),
          Load15m |-> Rat(avg.Load15m, 1)]
    ELSE [Load1m |-> Rat(avg.Load1m, cpus), Load5m |-> Rat(avg.Load5m, cpus),
          Load15m |-> Rat(avg.Load15m, cpus)]

---------------------------------------------------------------------------
(* internal/kubernetes: the client's operations on the node's taint list *)

\* variant: the key alone decides
M_ClientHasTaint_KeyOnly(taints, key, effect) ==
    \E i \in 1..Len(taints) : taints[i].key = key

ClientHasTaint(taints, key, effect) ==
    \E i \in 1..Len(taints) : taints[i].key = key /\ taints[i].effect = effect

\* the list ApplyTaint writes: unchanged when a taint with the key is there
ClientApplyTaint(taints, key, value, effect) ==
    IF \E i \in 1..Len(taints) : taints[i].key = key
    THEN taints
    ELSE Append(taints, Taint(key, "true", effect))

\* the list the JSON-patch client writes: every taint with the key and the
\* effect replaced by the new one, the new one appended when there was none
PatchApplyTaint(taints, key, value, effect) ==
    IF \E i \in 1..Len(taints) : taints[i].key = key /\ taints[i].effect = effect
    THEN [i \in 1..Len(taints) |->
            IF taints[i].key = key /\ taints[i].effect = effect
            THEN Taint(key, value, effect)
            ELSE taints[i]]
    ELSE Append(taints, Taint(key, value, effect))

\* the operation of the JSON patch ApplyTaint sends
PatchOp(before, payload) ==
    IF Len(payload) > 0 /\ Len(before) = 0 THEN "add" ELSE "replace"

\* variant: the key alone decides
M_NotMatching_KeyOnly(key, effect, t) == t.key # key

NotMatching(key, effect, t) == ~(t.key = key /\ t.effect = effect)

\* variant: only the first taint with the key and the effect is dropped
M_ClientRemoveTaint_FirstOnly(taints, key, effect) ==
    IF \E i \in 1..Len(taints) : ~NotMatching(key, effect, taints[i])
    THEN LET i == CHOOSE j \in 1..Len(taints) :
                    /\ ~NotMatching(key, effect, taints[j])
                    /\ \A k \in 1..(j - 1) : NotMatching(key, effect, taints[k])
         IN SubSeq(taints, 1, i - 1) \o SubSeq(taints, i + 1, Len(taints))
    ELSE taints

ClientRemoveTaint(taints, key, effect) ==
    SelectSeq(taints, LAMBDA t : NotMatching(key, effect, t))

---------------------------------------------------------------------------
(* internal/controller *)

\* the context Run is given (main: context.WithCancel) and the one the shutdown
\* removal is given (context.Background())
RunContext == "run"
M_ShutdownContext_Run == RunContext
ShutdownContext == "background"

M_ContextDone_Never(ctx) == FALSE

\* ctx.Done() is closed: only the context Run was given is ever cancelled
ContextDone(ctx) == ctx = RunContext /\ cancelled

M_Call_KeyForNode(op, ctx, value, ok) ==
    [op |-> op, ctx |-> ctx, node |-> config.TaintKey, key |-> config.TaintKey,
     value |-> value, effect |-> config.TaintEffect, ok |-> ok]

Call(op, ctx, value, ok) ==
    [op |-> op, ctx |-> ctx, node |-> config.NodeName, key |-> config.TaintKey,
     value |-> value, effect |-> config.TaintEffect, ok |-> ok]

\* the sample field of a step that reads no load
NoSample == [err |-> FALSE, avg |-> NilAverages]

StepRecord(kind, sample, exceeded, at, calls) ==
    [kind |-> kind, sample |-> sample, exceeded |-> exceeded,
     at |-> at, calls |-> calls]

NoStep ==
    [kind |-> "none", sample |-> NoSample, exceeded |-> FALSE,
     at |-> StartTime, calls |-> <<>>]

\* what is kept of a step once the next one has run
Summary(step) ==
    [kind |-> step.kind, exceeded |-> step.exceeded, calls |-> step.calls]

NoStartup == [done |-> FALSE, found |-> FALSE, at |-> ZeroTime]

\* a metric vector that no WithLabelValues has been called on: it has no series
NoSeries == {}

\* the store client's calls are single steps here: none is ever under way
NoRequest == [stage |-> "none"]

\* the configuration is given: loading it is not part of the behaviours
NotLoaded == [stage |-> "none"]

Init ==
    /\ config \in Configs \cup {UnnamedConfig}
    /\ cpuCount \in CPUCounts
    /\ tainted = FALSE
    /\ lastTaintTime = ZeroTime
    /\ pc = "new"
    /\ cancelled = FALSE
    /\ now = StartTime
    /\ nodeTaints \in InitialTaintLists
    /\ last = NoStep
    /\ prev = Summary(NoStep)
    /\ startup = NoStartup
    /\ lastOverload = ZeroTime
    /\ request = NoRequest
    /\ loaded = NotLoaded
    /\ NodeTainted = NoSeries
    /\ TaintOperations = NoSeries

M_Exceeded_AtOrAbove(norm, th) ==
    \/ (th.Load1m > 0 /\ ~Gt(Rat(th.Load1m, 1), norm.Load1m))
    \/ (th.Load5m > 0 /\ ~Gt(Rat(th.Load5m, 1), norm.Load5m))
    \/ (th.Load15m > 0 /\ ~Gt(Rat(th.Load15m, 1), norm.Load15m))

M_Exceeded_ZeroCounts(norm, th) ==
    \/ Gt(norm.Load1m, Rat(th.Load1m, 1))
    \/ Gt(norm.Load5m, Rat(th.Load5m, 1))
    \/ Gt(norm.Load15m, Rat(th.Load15m, 1))

\* the verdict of lines 101-113
Exceeded(norm, th) ==
    \/ (th.Load1m > 0 /\ Gt(norm.Load1m, Rat(th.Load1m, 1)))
    \/ (th.Load5m > 0 /\ Gt(norm.Load5m, Rat(th.Load5m, 1)))
    \/ (th.Load15m > 0 /\ Gt(norm.Load15m, Rat(th.Load15m, 1)))

\* Faulty variants of the definitions below (named M_...) are what the
\* properties are expected to tell apart from the code.
M_CooldownPassed_Strict(t, lastTaint, cooldown) == t - lastTaint > cooldown
M_CooldownPassed_Early(t, lastTaint, cooldown) == t - lastTaint >= cooldown - 1

\* time.Since(c.lastTaintTime) >= c.config.CooldownPeriod
CooldownPassed(t, lastTaint, cooldown) == t - lastTaint >= cooldown

M_AfterApply_NoTimestamp(ok, tEnd) ==
    IF ok
    THEN [tainted |-> TRUE, lastTaintTime |-> lastTaintTime]
    ELSE [tainted |-> tainted, lastTaintTime |-> lastTaintTime]

\* variant: a successful ApplyTaint is not remembered
M_AfterApply_Forget(ok, tEnd) == [tainted |-> FALSE, lastTaintTime |-> tEnd]

M_AfterApply_IgnoreError(ok, tEnd) == [tainted |-> TRUE, lastTaintTime |-> tEnd]

\* the outcome of the branch "exceeded, not tainted": ApplyTaint returned at tEnd
AfterApply(ok, tEnd) ==
    IF ok
    THEN [tainted |-> TRUE, lastTaintTime |-> tEnd]
    ELSE [tainted |-> tainted, lastTaintTime |-> lastTaintTime]

M_AfterStillExceeded_Keep(t) == [tainted |-> tainted, lastTaintTime |-> lastTaintTime]

\* the branch "exceeded, already tainted"
AfterStillExceeded(t) == [tainted |-> tainted, lastTaintTime |-> t]

\* variant: a successful RemoveTaint clears the timestamp as well
M_AfterRemove_ResetTime(ok) ==
    IF ok
    THEN [tainted |-> FALSE, lastTaintTime |-> ZeroTime]
    ELSE [tainted |-> tainted, lastTaintTime |-> lastTaintTime]

\* variant: a successful RemoveTaint is not remembered
M_AfterRemove_Keep(ok) == [tainted |-> tainted, lastTaintTime |-> lastTaintTime]

M_AfterRemove_IgnoreError(ok) == [tainted |-> FALSE, lastTaintTime |-> lastTaintTime]

\* the outcome of the branch "below thresholds, tainted, cooldown passed"
AfterRemove(ok) ==
    IF ok
    THEN [tainted |-> FALSE, lastTaintTime |-> lastTaintTime]
    ELSE [tainted |-> tainted, lastTaintTime |-> lastTaintTime]

Unchanged == [tainted |-> tainted, lastTaintTime |-> lastTaintTime]

M_TickCall_ApplyAlways(exceeded, t) ==
    IF exceeded
    THEN "ApplyTaint"
    ELSE IF tainted /\ CooldownPassed(t, lastTaintTime, config.CooldownPeriod)
         THEN "RemoveTaint"
         ELSE "none"

\* variant: no ApplyTaint in the tick that follows a successful removal
M_TickCall_HoldAfterRemove(exceeded, t) ==
    IF exceeded
    THEN IF ~tainted /\ ~(/\ last.kind = "tick" /\ Len(last.calls) = 1
                          /\ last.calls[1].op = "RemoveTaint" /\ last.calls[1].ok)
         THEN "ApplyTaint"
         ELSE "none"
    ELSE IF tainted /\ CooldownPassed(t, lastTaintTime, config.CooldownPeriod)
         THEN "RemoveTaint"
         ELSE "none"

M_TickCall_RemoveWhenClean(exceeded, t) ==
    IF exceeded
    THEN IF ~tainted THEN "ApplyTaint" ELSE "none"
    ELSE IF CooldownPassed(t, lastTaintTime, config.CooldownPeriod)
         THEN "RemoveTaint"
         ELSE "none"

\* which store call a tick with this verdict makes at time t
TickCall(exceeded, t) ==
    IF exceeded
    THEN IF ~tainted THEN "ApplyTaint" ELSE "none"
    ELSE IF tainted /\ CooldownPassed(t, lastTaintTime, config.CooldownPeriod)
         THEN "RemoveTaint"
         ELSE "none"

M_NodeNameMissing_Never == FALSE

\* Run, line 47: no node name is configured
NodeNameMissing == config.NodeName = ""

\* Run, lines 47-49: logger.Fatal ends the process
Run_Fatal ==
    /\ pc = "new"
    /\ NodeNameMissing
    /\ pc' = "fatal"
    /\ prev' = Summary(last)
    /\ last' = StepRecord("fatal", NoSample, FALSE, now, <<>>)
    /\ UNCHANGED <<NodeTainted, TaintOperations, loaded, request, config, cpuCount, tainted, lastTaintTime, cancelled, now, nodeTaints,
                   startup, lastOverload>>

M_StartupTainted_AssumeTainted(ok, found) == IF ~ok THEN TRUE ELSE found

\* Run, lines 53-57: tainted after the initial HasTaint returned (found, ok)
StartupTainted(ok, found) == IF ~ok THEN FALSE ELSE found

M_StartupState_NoTimestamp(existingTaint, t) ==
    [tainted |-> existingTaint, lastTaintTime |-> lastTaintTime]

\* Run, lines 53-62: the state seeded from what HasTaint returned (false on error)
StartupState(existingTaint, t) ==
    [tainted |-> existingTaint,
     lastTaintTime |-> IF existingTaint THEN t ELSE lastTaintTime]

\* Run, lines 51-65: the initial HasTaint and the seeding of the state.  The
\* clock is the one time.Now() reads once HasTaint has returned.
Run_Start(ok) ==
    /\ pc = "new"
    /\ ~NodeNameMissing
    /\ ok => ~ContextDone(RunContext)
    /\ LET existingTaint ==
            StartupTainted(ok, ok /\ ClientHasTaint(nodeTaints, config.TaintKey,
                                                    config.TaintEffect))
       IN /\ tainted' = StartupState(existingTaint, now).tainted
          /\ lastTaintTime' = StartupState(existingTaint, now).lastTaintTime
          /\ startup' = [done |-> TRUE, found |-> existingTaint, at |-> now]
          /\ lastOverload' = IF existingTaint THEN now ELSE lastOverload
    /\ pc' = "loop"
    /\ prev' = Summary(last)
    /\ last' = StepRecord("start", NoSample, FALSE, now, << Call("HasTaint", RunContext, "", ok) >>)
    /\ UNCHANGED <<NodeTainted, TaintOperations, loaded, request, config, cpuCount, cancelled, nodeTaints, now>>

\* the store's side of a call the tick makes
StoreAfter(op, ok) ==
    IF ~ok THEN nodeTaints
    ELSE IF op = "ApplyTaint"
         THEN ClientApplyTaint(nodeTaints, config.TaintKey, "high-load", config.TaintEffect)
         ELSE IF op = "RemoveTaint"
              THEN ClientRemoveTaint(nodeTaints, config.TaintKey, config.TaintEffect)
              ELSE nodeTaints

M_AtWaitPoint_Preempt == pc \in {"loop", "tick-call"}

\* Run, lines 67-69: Run is blocked in the select of its loop
AtWaitPoint == pc = "loop"

\* checkLoadAndTaint, lines 90-113: the verdict on a sample (none when unread)
TickVerdict(sample) ==
    IF sample.err THEN FALSE
    ELSE Exceeded(NormalizeLoadAverages(sample.avg, cpuCount), config.Thresholds)

M_TickOp_IgnoreReadError(sample, exceeded, t) == TickCall(exceeded, t)

\* checkLoadAndTaint, lines 91-95: a sample that could not be read ends the tick
TickOp(sample, exceeded, t) == IF sample.err THEN "none" ELSE TickCall(exceeded, t)

\* tainted and lastTaintTime when the tick ends: its call op returned ok at tEnd
TickAfter(sample, exceeded, op, t, ok, tEnd) ==
    IF sample.err THEN Unchanged
    ELSE IF exceeded
         THEN IF op = "ApplyTaint" THEN AfterApply(ok, tEnd)
              ELSE AfterStillExceeded(t)
         ELSE IF op = "RemoveTaint" THEN AfterRemove(ok)
              ELSE Unchanged

\* the store calls of a tick
TickCalls(op, ok) ==
    IF op = "none" THEN <<>>
    ELSE << Call(op, RunContext, IF op = "ApplyTaint" THEN "high-load" ELSE "", ok) >>

\* checkLoadAndTaint, entered w after the previous step ended; sample is what
\* ReadLoadAvg returns, ok the outcome of the store call and d the time ApplyTaint
\* takes before time.Now() is read (the time any other call takes is part of
\* the wait before the next tick)
checkLoadAndTaint(w, sample, ok, d) ==
    LET t == now + w
        exceeded == TickVerdict(sample)
        op == TickOp(sample, exceeded, t)
        after == TickAfter(sample, exceeded, op, t, ok, t + d)
        calls == TickCalls(op, ok)
    IN /\ AtWaitPoint
       /\ (op = "none") => ok
       /\ (op # "none" /\ ContextDone(RunContext)) => ~ok
       /\ (op # "ApplyTaint") => d = 0
       /\ t + d <= MaxTime
       /\ tainted' = after.tainted
       /\ lastTaintTime' = after.lastTaintTime
       /\ nodeTaints' = StoreAfter(op, ok)
       /\ now' = IF op = "none" THEN t ELSE t + d
       /\ prev' = Summary(last)
       /\ last' = StepRecord("tick", sample, exceeded, t, calls)
       /\ lastOverload' = IF exceeded THEN t ELSE lastOverload
       /\ UNCHANGED <<NodeTainted, TaintOperations, loaded, request, config, cpuCount, pc, cancelled, startup>>

Tick ==
    \E w \in WaitTimes, sample \in Samples, ok \in BOOLEAN, d \in CallTimes :
        checkLoadAndTaint(w, sample, ok, d)

\* WatchSignals: a signal arrives and cancel() is called
Cancel ==
    /\ ~cancelled
    /\ pc \notin {"done", "fatal"}
    /\ cancelled' = TRUE
    /\ UNCHANGED <<NodeTainted, TaintOperations, loaded, request, config, cpuCount, tainted, lastTaintTime, pc, now, nodeTaints, last, prev,
                   startup, lastOverload>>

M_ShutdownCalls_Unconditional(ok) ==
    << Call("RemoveTaint", ShutdownContext, "", ok) >>

\* Run, lines 74-81: the store calls of the shutdown handler
ShutdownCalls(ok) ==
    IF tainted THEN << Call("RemoveTaint", ShutdownContext, "", ok) >> ELSE <<>>

\* Run, lines 69-83: the ctx.Done() case of the select
Run_Shutdown(ok) ==
    /\ AtWaitPoint
    /\ ContextDone(RunContext)
    /\ (ShutdownCalls(ok) = <<>>) => ok
    /\ (ShutdownCalls(ok) # <<>> /\ ContextDone(ShutdownContext)) => ~ok
    /\ nodeTaints' = IF ShutdownCalls(ok) # <<>> THEN StoreAfter("RemoveTaint", ok)
                     ELSE nodeTaints
    /\ now' = now
    /\ pc' = "done"
    /\ prev' = Summary(last)
    /\ last' = StepRecord("shutdown", NoSample, FALSE, now, ShutdownCalls(ok))
    /\ UNCHANGED <<NodeTainted, TaintOperations, loaded, request, config, cpuCount, tainted, lastTaintTime, cancelled, startup, lastOverload>>

Next ==
    \/ Run_Fatal
    \/ \E ok \in BOOLEAN : Run_Start(ok)
    \/ Tick
    \/ Cancel
    \/ \E ok \in BOOLEAN : Run_Shutdown(ok)

Spec == Init /\ [][Next]_vars

---------------------------------------------------------------------------
(* Run with its store calls in flight: a tick or the shutdown handler that     *)
(* makes a store call is two steps, the call being issued and the call         *)
(* returning, and the signal handler's cancel() may come between them.  While  *)
(* a call is in flight pc is "tick-call" or "shutdown-call" and last holds the *)
(* call, its ok field telling whether its context was live when it was issued. *)

\* checkLoadAndTaint up to the store call (all of it when it makes none)
Tick_Begin(w, sample) ==
    LET t == now + w
        exceeded == TickVerdict(sample)
        op == TickOp(sample, exceeded, t)
        after == TickAfter(sample, exceeded, op, t, TRUE, t)
    IN /\ AtWaitPoint
       /\ t <= MaxTime
       /\ now' = t
       /\ prev' = Summary(last)
       /\ lastOverload' = IF exceeded THEN t ELSE lastOverload
       /\ IF op = "none"
          THEN /\ tainted' = after.tainted
               /\ lastTaintTime' = after.lastTaintTime
               /\ last' = StepRecord("tick", sample, exceeded, t, <<>>)
               /\ pc' = pc
          ELSE /\ last' = StepRecord("tick-call", sample, exceeded, t,
                                     TickCalls(op, ~ContextDone(RunContext)))
               /\ pc' = "tick-call"
               /\ UNCHANGED <<tainted, lastTaintTime>>
       /\ UNCHANGED <<NodeTainted, TaintOperations, loaded, request, config, cpuCount, cancelled, nodeTaints, startup>>

\* the store call of the tick returns, d after it was issued, and the tick ends.
\* landed: the call's write was taken by the API server.  A call that returns
\* nil has landed; a call that was issued on a live context and whose context is
\* cancelled while it is in flight returns the context's error whether or not
\* its write has landed
Tick_Return(ok, landed, d) ==
    LET op == last.calls[1].op
        after == TickAfter(last.sample, last.exceeded, op, last.at, ok, now + d)
    IN /\ pc = "tick-call"
       /\ ok => last.calls[1].ok
       /\ ok => landed
       /\ (landed /\ ~ok) => (last.calls[1].ok /\ ContextDone(RunContext))
       /\ (op # "ApplyTaint") => d = 0
       /\ now + d <= MaxTime
       /\ tainted' = after.tainted
       /\ lastTaintTime' = after.lastTaintTime
       /\ nodeTaints' = StoreAfter(op, landed)
       /\ now' = now + d
       /\ pc' = "loop"
       /\ last' = StepRecord("tick", last.sample, last.exceeded, last.at, TickCalls(op, ok))
       /\ UNCHANGED <<NodeTainted, TaintOperations, loaded, request, config, cpuCount, cancelled, prev, startup, lastOverload>>

\* Run, lines 69-77: the ctx.Done() case is taken, up to the RemoveTaint call
Shutdown_Begin ==
    /\ AtWaitPoint
    /\ ContextDone(RunContext)
    /\ prev' = Summary(last)
    /\ IF ShutdownCalls(TRUE) = <<>>
       THEN /\ pc' = "done"
            /\ last' = StepRecord("shutdown", NoSample, FALSE, now, <<>>)
       ELSE /\ pc' = "shutdown-call"
            /\ last' = StepRecord("shutdown-call", NoSample, FALSE, now,
                                  ShutdownCalls(~ContextDone(ShutdownContext)))
    /\ UNCHANGED <<NodeTainted, TaintOperations, loaded, request, config, cpuCount, tainted, lastTaintTime, cancelled, now, nodeTaints,
                   startup, lastOverload>>

\* Run, lines 76-83: the shutdown RemoveTaint returns and Run returns
Shutdown_Return(ok) ==
    /\ pc = "shutdown-call"
    /\ ok => last.calls[1].ok
    /\ nodeTaints' = StoreAfter("RemoveTaint", ok)
    /\ pc' = "done"
    /\ last' = StepRecord("shutdown", NoSample, FALSE, last.at,
                          << [last.calls[1] EXCEPT !.ok = ok] >>)
    /\ UNCHANGED <<NodeTainted, TaintOperations, loaded, request, config, cpuCount, tainted, lastTaintTime, cancelled, now, prev,
                   startup, lastOverload>>

RunNext ==
    \/ Run_Fatal
    \/ \E ok \in BOOLEAN : Run_Start(ok)
    \/ \E w \in WaitTimes, sample \in Samples : Tick_Begin(w, sample)
    \/ \E ok \in BOOLEAN, landed \in BOOLEAN, d \in CallTimes : Tick_Return(ok, landed, d)
    \/ Cancel
    \/ Shutdown_Begin
    \/ \E ok \in BOOLEAN : Shutdown_Return(ok)

RunSpec == Init /\ [][RunNext]_vars

\* Run's goroutine keeps taking steps, every store call returns, and a select
\* that finds ctx.Done() closed again and again takes that case in the end
\* (the ticker is ready at most once per poll interval, and the select chooses
\* at random among the ready cases)
RunFairSpec ==
    /\ RunSpec
    /\ WF_vars(Run_Fatal)
    /\ WF_vars(\E ok \in BOOLEAN : Run_Start(ok))
    /\ WF_vars(\E w \in WaitTimes, sample \in Samples : Tick_Begin(w, sample))
    /\ WF_vars(\E ok \in BOOLEAN, landed \in BOOLEAN, d \in CallTimes : Tick_Return(ok, landed, d))
    /\ SF_vars(Shutdown_Begin)
    /\ WF_vars(\E ok \in BOOLEAN : Shutdown_Return(ok))

---------------------------------------------------------------------------
(* Run on a node that another actor writes as well: between two steps of    *)
(* Run an operator, or another controller, may take the managed taint off.  *)

\* another actor removes the taint with the controller's key and effect
Other_RemoveTaint ==
    /\ pc \in {"new", "loop"}
    /\ ClientHasTaint(nodeTaints, config.TaintKey, config.TaintEffect)
    /\ nodeTaints' = ClientRemoveTaint(nodeTaints, config.TaintKey, config.TaintEffect)
    /\ UNCHANGED <<NodeTainted, TaintOperations, loaded, request, config, cpuCount, tainted, lastTaintTime, pc,
                   cancelled, now, last, prev, startup, lastOverload>>

SharedNext ==
    \/ Next
    \/ Other_RemoveTaint

SharedSpec == Init /\ [][SharedNext]_vars

---------------------------------------------------------------------------
(* The evaluation alone: normalisation and verdict, applied to every sample *)
(* under every combination of thresholds and core count.                    *)

EvalLoads == {0, 2, 3, 6}
EvalThresholds == {0, 2, 3}     \* Validate admits no negative threshold
EvalCPUCounts == {-1, 0, 1, 2}  \* what NormalizeLoadAverages may be handed

EvalAverages == [Load1m : EvalLoads, Load5m : EvalLoads, Load15m : EvalLoads]

EvalConfigs ==
    [ NodeName : {"node-1"},
      TaintKey : {ManagedKey},
      TaintEffect : {ManagedEffect},
      Thresholds : [Load1m : EvalThresholds, Load5m : EvalThresholds,
                    Load15m : EvalThresholds],
      CooldownPeriod : {1} ]

EvalInit ==
    /\ config \in EvalConfigs
    /\ cpuCount \in EvalCPUCounts
    /\ tainted = FALSE
    /\ lastTaintTime = ZeroTime
    /\ pc = "loop"
    /\ cancelled = FALSE
    /\ now = StartTime
    /\ nodeTaints = <<>>
    /\ last = NoStep
    /\ prev = Summary(NoStep)
    /\ startup = NoStartup
    /\ lastOverload = ZeroTime
    /\ request = NoRequest
    /\ loaded = NotLoaded
    /\ NodeTainted = NoSeries
    /\ TaintOperations = NoSeries

\* checkLoadAndTaint, lines 97-113, on the averages a read returned
Evaluate(avg) ==
    /\ last' = [kind |-> "evaluate",
                sample |-> [err |-> FALSE, avg |-> avg],
                norm |-> NormalizeLoadAverages(avg, cpuCount),
                exceeded |-> Exceeded(NormalizeLoadAverages(avg, cpuCount),
                                      config.Thresholds)]
    /\ UNCHANGED <<NodeTainted, TaintOperations, loaded, request, config, cpuCount, tainted, lastTaintTime, pc, cancelled, now,
                   nodeTaints, prev, startup, lastOverload>>

EvalNext == \E avg \in EvalAverages : Evaluate(avg)

EvalSpec == EvalInit /\ [][EvalNext]_vars

---------------------------------------------------------------------------
(* The store client against a node that other actors write to.  A call is   *)
(* the client's Get, then (for the client that writes with Update) the      *)
(* second Get of updateNodeWithTaints, then the write; another actor may    *)
(* change the node's taints before, between and after these steps.  The     *)
(* sources hold two clients: the one that writes the whole node with Update *)
(* ("update") and the one that sends a JSON patch ("patch").                *)

MaxCalls == 2      \* calls the client makes in a run
MaxExternal == 2   \* changes other actors make in a run

ClientImpls == {"update", "patch"}
ClientOps == {"HasTaint", "ApplyTaint", "RemoveTaint"}

ManagedTaint == Taint(ManagedKey, "high-load", ManagedEffect)
StaleTaint == Taint(ManagedKey, "old", ManagedEffect)
SameKeyTaint == Taint(ManagedKey, "x", OtherEffect)
OtherTaint == Taint(OtherKey, "y", ManagedEffect)
\* the taint another actor adds
ExternalTaint == Taint("external-key", "z", ManagedEffect)

ClientTaintLists ==
    { <<>>,
      << ManagedTaint >>,
      << SameKeyTaint >>,
      << OtherTaint >>,
      << OtherTaint, StaleTaint, SameKeyTaint >>,
      << StaleTaint, OtherTaint, ManagedTaint >> }

ClientConfig ==
    [ NodeName |-> "node-1", TaintKey |-> ManagedKey, TaintEffect |-> ManagedEffect,
      Thresholds |-> Thresholds(2, 0, 0), CooldownPeriod |-> 1 ]

\* no call made yet
NoCall ==
    [op |-> "none", ok |-> FALSE, found |-> FALSE, wrote |-> FALSE,
     fetched |-> FALSE, before |-> <<>>, after |-> <<>>]

IdleRequest(impl) ==
    [stage |-> "idle", impl |-> impl, calls |-> 0, ext |-> 0, op |-> "none",
     before |-> <<>>, payload |-> <<>>, patchOp |-> "none",
     changedSinceGet |-> FALSE, changedSinceReGet |-> FALSE,
     fetched |-> FALSE, sent |-> FALSE,
     wrote |-> FALSE, ok |-> FALSE, found |-> FALSE, after |-> <<>>,
     first |-> NoCall]

ClientInit ==
    /\ config = ClientConfig
    /\ cpuCount = 1
    /\ tainted = FALSE
    /\ lastTaintTime = ZeroTime
    /\ pc = "new"
    /\ cancelled = FALSE
    /\ now = StartTime
    /\ nodeTaints \in ClientTaintLists
    /\ last = NoStep
    /\ prev = Summary(NoStep)
    /\ startup = NoStartup
    /\ lastOverload = ZeroTime
    /\ request \in { IdleRequest(impl) : impl \in ClientImpls }
    /\ loaded = NotLoaded
    /\ NodeTainted = NoSeries
    /\ TaintOperations = NoSeries

\* the call has returned: ok is "the error is nil", found is HasTaint's bool,
\* wrote is "the node was written"
Returned(r, ok, found, wrote, after) ==
    [r EXCEPT !.stage = "done", !.ok = ok, !.found = found, !.wrote = wrote,
              !.after = after]

\* what is kept of the call before this one
CallSummary(r) ==
    IF r.stage = "done"
    THEN [op |-> r.op, ok |-> r.ok, found |-> r.found, wrote |-> r.wrote,
          fetched |-> r.fetched, before |-> r.before, after |-> r.after]
    ELSE r.first

\* the call is entered and the node is fetched (ok: the Get succeeded); the
\* call returns at once on a failed Get, for HasTaint, and when ApplyTaint or
\* RemoveTaint finds nothing to write
Client_Get(op, ok) ==
    LET key == config.TaintKey
        effect == config.TaintEffect
        r == [request EXCEPT !.calls = @ + 1, !.op = op,
                             !.before = IF ok THEN nodeTaints ELSE <<>>,
                             !.payload = <<>>, !.patchOp = "none",
                             !.changedSinceGet = FALSE, !.changedSinceReGet = FALSE,
                             !.fetched = ok, !.sent = FALSE,
                             !.first = CallSummary(request)]
        present == ClientHasTaint(nodeTaints, key, effect)
    IN /\ request.stage \in {"idle", "done"}
       /\ request.calls < MaxCalls
       /\ request' =
            IF ~ok THEN Returned(r, FALSE, FALSE, FALSE, nodeTaints)
            ELSE IF op = "HasTaint" THEN Returned(r, TRUE, present, FALSE, nodeTaints)
            ELSE IF op = "ApplyTaint" /\ request.impl = "update"
                 THEN IF ClientApplyTaint(nodeTaints, key, "high-load", effect) = nodeTaints
                      THEN Returned(r, TRUE, FALSE, FALSE, nodeTaints)
                      ELSE [r EXCEPT !.stage = "reget",
                                     !.payload = ClientApplyTaint(nodeTaints, key,
                                                                  "high-load", effect)]
            ELSE IF op = "ApplyTaint"
                 THEN [r EXCEPT !.stage = "write",
                                !.payload = PatchApplyTaint(nodeTaints, key, "high-load",
                                                            effect),
                                !.patchOp = PatchOp(nodeTaints,
                                                    PatchApplyTaint(nodeTaints, key,
                                                                    "high-load", effect))]
            ELSE IF ~present THEN Returned(r, TRUE, FALSE, FALSE, nodeTaints)
            ELSE IF request.impl = "update"
                 THEN [r EXCEPT !.stage = "reget",
                                !.payload = ClientRemoveTaint(nodeTaints, key, effect)]
                 ELSE [r EXCEPT !.stage = "write", !.patchOp = "replace",
                                !.payload = ClientRemoveTaint(nodeTaints, key, effect)]
       /\ UNCHANGED <<NodeTainted, TaintOperations, loaded, config, cpuCount, tainted, lastTaintTime, pc, cancelled, now,
                      nodeTaints, last, prev, startup, lastOverload>>

\* updateNodeWithTaints fetches the node again: what it will write back is that
\* node with its taints replaced by the list computed from the first Get
Client_ReGet(ok) ==
    /\ request.stage = "reget"
    /\ request' = IF ok THEN [request EXCEPT !.stage = "write",
                                             !.changedSinceReGet = FALSE]
                  ELSE Returned(request, FALSE, FALSE, FALSE, nodeTaints)
    /\ UNCHANGED <<NodeTainted, TaintOperations, loaded, config, cpuCount, tainted, lastTaintTime, pc, cancelled, now,
                   nodeTaints, last, prev, startup, lastOverload>>

\* the API server takes the write: an Update unless the node has changed since
\* the version it carries was fetched, a JSON patch unless it replaces a taints
\* field that is not there
WriteAccepted(r, taints) ==
    IF r.impl = "update" THEN ~r.changedSinceReGet
    ELSE r.patchOp = "add" \/ taints # <<>>

\* the write (ok: the request reached the API server and the answer came back)
Client_Write(ok) ==
    LET accepted == ok /\ WriteAccepted(request, nodeTaints)
        after == IF accepted THEN request.payload ELSE nodeTaints
    IN /\ request.stage = "write"
       /\ nodeTaints' = after
       /\ request' = Returned([request EXCEPT !.sent = TRUE], accepted, FALSE,
                              accepted, after)
       /\ UNCHANGED <<NodeTainted, TaintOperations, loaded, config, cpuCount, tainted, lastTaintTime, pc, cancelled, now,
                      last, prev, startup, lastOverload>>

\* what another actor may make of the node's taints: one taint more or one less
ExternalChanges(taints) ==
    { Append(taints, ExternalTaint) }
        \cup { SubSeq(taints, 1, i - 1) \o SubSeq(taints, i + 1, Len(taints)) :
                 i \in 1..Len(taints) }

\* another actor (the scheduler, another controller, an operator) writes the node
Other_Modify ==
    /\ request.ext < MaxExternal
    /\ nodeTaints' \in ExternalChanges(nodeTaints)
    /\ request' = [request EXCEPT
                     !.ext = @ + 1,
                     !.changedSinceGet = @ \/ request.stage \in {"reget", "write"},
                     !.changedSinceReGet = @ \/ request.stage = "write"]
    /\ UNCHANGED <<NodeTainted, TaintOperations, loaded, config, cpuCount, tainted, lastTaintTime, pc, cancelled, now,
                   last, prev, startup, lastOverload>>

ClientNext ==
    \/ \E op \in ClientOps, ok \in BOOLEAN : Client_Get(op, ok)
    \/ \E ok \in BOOLEAN : Client_ReGet(ok)
    \/ \E ok \in BOOLEAN : Client_Write(ok)
    \/ Other_Modify

ClientSpec == ClientInit /\ [][ClientNext]_vars

---------------------------------------------------------------------------
(* internal/config: LoadConfig and Validate.  Durations are in seconds, a   *)
(* float64 is an integer or NaN, and the document is the Config that        *)
(* yaml.Unmarshal leaves: a field the file does not set has its zero value. *)

Float(v) == [nan |-> FALSE, v |-> v]
NaN == [nan |-> TRUE, v |-> 0]

\* the comparisons of float64: every comparison with NaN is false
FLt(a, b) == ~a.nan /\ ~b.nan /\ a.v < b.v
FEq(a, b) == ~a.nan /\ ~b.nan /\ a.v = b.v

MinPollInterval == 1
MaxPollInterval == 300
DefaultPollInterval == 10
DefaultCooldownPeriod == 300
ValidEffects == {"NoSchedule", "PreferNoSchedule", "NoExecute"}

FileFloats == {Float(-1), Float(0), Float(1), NaN}
FilePollIntervals == {0, 1, 10, 300, 301}
FileCooldownPeriods == {0, 1, 10, 300, 301}
FileEffects == {""} \cup ValidEffects \cup {"Invalid"}

\* the Configs a file can decode to
FileConfigs ==
    [ NodeName : {"", "file-node"},
      TaintKey : {"", "file-key"},
      TaintEffect : FileEffects,
      ConfigFilePath : {""},
      Thresholds : [Load1m : FileFloats, Load5m : FileFloats, Load15m : FileFloats],
      PollInterval : FilePollIntervals,
      CooldownPeriod : FileCooldownPeriods ]

\* the document {}
EmptyDocument ==
    [ NodeName |-> "", TaintKey |-> "", TaintEffect |-> "", ConfigFilePath |-> "",
      Thresholds |-> [Load1m |-> Float(0), Load5m |-> Float(0), Load15m |-> Float(0)],
      PollInterval |-> 0, CooldownPeriod |-> 0 ]

\* what LoadConfig finds at the path: a readable YAML file, or one of the
\* failures it returns before decoding
FileStates == {"ok", "missing", "directory", "extension", "unreadable", "malformed"}
ConfigPath == "/etc/kube-dethrottler/config.yaml"

\* variant: thresholds that are all zero pass
M_Validate_AllowAllZero(c) ==
    IF c.PollInterval < MinPollInterval THEN "pollInterval must be at least 1 second"
    ELSE IF c.PollInterval > MaxPollInterval THEN "pollInterval should not exceed 5 minutes"
    ELSE IF c.CooldownPeriod < c.PollInterval
         THEN "cooldownPeriod must be greater than pollInterval"
    ELSE IF c.TaintEffect \notin ValidEffects THEN "invalid taintEffect"
    ELSE IF \/ FLt(c.Thresholds.Load1m, Float(0))
            \/ FLt(c.Thresholds.Load5m, Float(0))
            \/ FLt(c.Thresholds.Load15m, Float(0))
         THEN "load thresholds cannot be negative"
    ELSE "nil"

\* Validate: the error it returns, "nil" for none
Validate(c) ==
    IF c.PollInterval < MinPollInterval THEN "pollInterval must be at least 1 second"
    ELSE IF c.PollInterval > MaxPollInterval THEN "pollInterval should not exceed 5 minutes"
    ELSE IF c.CooldownPeriod < c.PollInterval
         THEN "cooldownPeriod must be greater than pollInterval"
    ELSE IF c.TaintEffect \notin ValidEffects THEN "invalid taintEffect"
    ELSE IF \/ FLt(c.Thresholds.Load1m, Float(0))
            \/ FLt(c.Thresholds.Load5m, Float(0))
            \/ FLt(c.Thresholds.Load15m, Float(0))
         THEN "load thresholds cannot be negative"
    ELSE IF /\ FEq(c.Thresholds.Load1m, Float(0))
            /\ FEq(c.Thresholds.Load5m, Float(0))
            /\ FEq(c.Thresholds.Load15m, Float(0))
         THEN "at least one load threshold must be set"
    ELSE "nil"

\* the defaults LoadConfig sets in the decoded Config, the path and the node name
WithDefaults(c, env) ==
    [ c EXCEPT
        !.PollInterval = IF @ = 0 THEN DefaultPollInterval ELSE @,
        !.CooldownPeriod = IF @ = 0 THEN DefaultCooldownPeriod ELSE @,
        !.TaintKey = IF @ = "" THEN "kube-dethrottler/high-load" ELSE @,
        !.TaintEffect = IF @ = "" THEN "NoSchedule" ELSE @,
        !.ConfigFilePath = ConfigPath,
        !.NodeName = IF @ = "" THEN env ELSE @ ]

\* LoadConfig's pair of results: cfg is the returned *Config when err is "nil",
\* and stands for the nil pointer otherwise
LoadConfig(file, doc, env) ==
    IF file # "ok" THEN [err |-> file, cfg |-> EmptyDocument]
    ELSE IF Validate(WithDefaults(doc, env)) # "nil"
         THEN [err |-> "invalid configuration", cfg |-> EmptyDocument]
    ELSE [err |-> "nil", cfg |-> WithDefaults(doc, env)]

ConfigInit ==
    /\ config = ClientConfig
    /\ cpuCount = 1
    /\ tainted = FALSE
    /\ lastTaintTime = ZeroTime
    /\ pc = "new"
    /\ cancelled = FALSE
    /\ now = StartTime
    /\ nodeTaints = <<>>
    /\ last = NoStep
    /\ prev = Summary(NoStep)
    /\ startup = NoStartup
    /\ lastOverload = ZeroTime
    /\ request = NoRequest
    /\ loaded \in { [stage |-> "input", doc |-> doc, env |-> env, file |-> "ok",
                      err |-> "nil", cfg |-> EmptyDocument] :
                     doc \in FileConfigs, env \in {"", "env-node"} }
    /\ NodeTainted = NoSeries
    /\ TaintOperations = NoSeries

\* c.Validate() on the Config as it stands
Config_Validate ==
    /\ loaded.stage = "input"
    /\ loaded' = [loaded EXCEPT !.stage = "validated", !.err = Validate(loaded.doc),
                                !.cfg = loaded.doc]
    /\ UNCHANGED <<NodeTainted, TaintOperations, config, cpuCount, tainted, lastTaintTime,
                   pc, cancelled, now, nodeTaints, last, prev, startup, lastOverload,
                   request>>

\* LoadConfig(path) on a file that decodes to the Config, or cannot be read
Config_Load(file) ==
    /\ loaded.stage = "input"
    /\ loaded' = [loaded EXCEPT !.stage = "loaded", !.file = file,
                                !.err = LoadConfig(file, loaded.doc, loaded.env).err,
                                !.cfg = LoadConfig(file, loaded.doc, loaded.env).cfg]
    /\ UNCHANGED <<NodeTainted, TaintOperations, config, cpuCount, tainted, lastTaintTime,
                   pc, cancelled, now, nodeTaints, last, prev, startup, lastOverload,
                   request>>

ConfigNext ==
    \/ Config_Validate
    \/ \E file \in FileStates : Config_Load(file)

ConfigSpec == ConfigInit /\ [][ConfigNext]_vars

---------------------------------------------------------------------------
(* Vocabulary of the properties *)

Periods == {"Load1m", "Load5m", "Load15m"}

\* a sample that was read and has some period with a nonzero threshold whose
\* load per core is strictly above it (stated on the raw figures)
SampleOverloaded(s) ==
    /\ ~s.err
    /\ \E p \in Periods :
          /\ config.Thresholds[p] # 0
          /\ s.avg[p] > config.Thresholds[p] * cpuCount

\* a sample that was read and is not overloaded
SampleBelow(s) == ~s.err /\ ~SampleOverloaded(s)

\* this step is one run of checkLoadAndTaint
TickStep == pc = "loop" /\ cancelled' = cancelled /\ last'.kind = "tick"

Issued(step, op) == \E i \in 1..Len(step.calls) : step.calls[i].op = op
IssuedOnly(step, op) == Len(step.calls) = 1 /\ step.calls[1].op = op
Succeeded(step, op) == IssuedOnly(step, op) /\ step.calls[1].ok
Failed(step, op) == IssuedOnly(step, op) /\ ~step.calls[1].ok

---------------------------------------------------------------------------
(* Properties *)

\* C1: a tick in state Clean whose sample is overloaded issues exactly one
\* ApplyTaint call, and when the call succeeds the tick ends with tainted = TRUE
\* and lastTaintTime equal to the clock.
C1_ApplyOnOverload ==
    [][ (TickStep /\ ~tainted /\ SampleOverloaded(last'.sample))
        => /\ IssuedOnly(last', "ApplyTaint")
           /\ last'.calls[1].ok => (tainted' /\ lastTaintTime' = now') ]_vars

C1_Witness ==
    /\ last.kind = "tick"
    /\ SampleOverloaded(last.sample)
    /\ Succeeded(last, "ApplyTaint")
    /\ tainted
    /\ lastTaintTime = now
    /\ now > last.at

\* C2: a tick issues RemoveTaint only when at least cooldownPeriod has passed
\* since the last observed overload (the latest overloaded tick, or the startup
\* that found the taint).
C2_NoRemovalWithinCooldown ==
    (last.kind = "tick" /\ Issued(last, "RemoveTaint"))
        => last.at - lastOverload >= config.CooldownPeriod

C2_Witness ==
    /\ last.kind = "tick"
    /\ Issued(last, "RemoveTaint")
    /\ prev.kind = "tick"
    /\ lastOverload > StartTime
    /\ last.at - lastOverload = config.CooldownPeriod

\* C3: a tick in state Tainted whose sample is overloaded makes no store call,
\* stays Tainted and sets lastTaintTime to the clock, which never moves it back.
C3_OverloadedWhileTainted ==
    [][ (TickStep /\ tainted /\ SampleOverloaded(last'.sample))
        => /\ last'.calls = <<>>
           /\ tainted'
           /\ lastTaintTime' = now'
           /\ lastTaintTime' >= lastTaintTime ]_vars

C3_Witness ==
    /\ prev.kind = "tick" /\ prev.exceeded /\ prev.calls = <<>>
    /\ last.kind = "tick" /\ SampleOverloaded(last.sample) /\ last.calls = <<>>
    /\ tainted
    /\ lastTaintTime = now
    /\ now - startup.at > config.CooldownPeriod

\* C4: a tick in state Tainted whose sample is not overloaded and for which the
\* time since lastTaintTime is at least cooldownPeriod issues exactly one
\* RemoveTaint call, and when the call succeeds the tick ends with tainted = FALSE.
C4_RemoveAfterCooldown ==
    [][ (/\ TickStep /\ tainted /\ SampleBelow(last'.sample)
         /\ last'.at - lastTaintTime >= config.CooldownPeriod)
        => /\ IssuedOnly(last', "RemoveTaint")
           /\ last'.calls[1].ok => ~tainted' ]_vars

\* the boundary: removal exactly cooldownPeriod after lastTaintTime
C4_Witness ==
    /\ last.kind = "tick"
    /\ SampleBelow(last.sample)
    /\ Succeeded(last, "RemoveTaint")
    /\ ~tainted
    /\ last.at - lastTaintTime = config.CooldownPeriod

\* C5: a tick in state Tainted whose sample is not overloaded and for which the
\* time since lastTaintTime is less than cooldownPeriod makes no store call and
\* leaves tainted and lastTaintTime as they were.
C5_HoldDuringCooldown ==
    [][ (/\ TickStep /\ tainted /\ SampleBelow(last'.sample)
         /\ last'.at - lastTaintTime < config.CooldownPeriod)
        => /\ last'.calls = <<>>
           /\ nodeTaints' = nodeTaints
           /\ tainted' = tainted
           /\ lastTaintTime' = lastTaintTime ]_vars

C5_Witness ==
    /\ last.kind = "tick"
    /\ SampleBelow(last.sample)
    /\ last.calls = <<>>
    /\ tainted
    /\ last.at - lastTaintTime = config.CooldownPeriod - 1

\* C6: when ApplyTaint fails, tainted and lastTaintTime are what they were before
\* the tick, and the next tick, if its sample is overloaded, issues ApplyTaint again.
C6_ApplyFailureRetried ==
    [][ /\ (TickStep /\ Failed(last', "ApplyTaint"))
            => (tainted' = tainted /\ lastTaintTime' = lastTaintTime)
        /\ (/\ last.kind = "tick" /\ Failed(last, "ApplyTaint")
            /\ TickStep /\ SampleOverloaded(last'.sample))
            => IssuedOnly(last', "ApplyTaint") ]_vars

C6_Witness ==
    /\ prev.kind = "tick" /\ Failed(prev, "ApplyTaint")
    /\ last.kind = "tick" /\ Failed(last, "ApplyTaint")
    /\ ~tainted

\* C7: when a tick's RemoveTaint fails, the controller stays Tainted with
\* lastTaintTime unchanged, and the next tick, if its sample is not overloaded,
\* issues RemoveTaint again.
C7_RemoveFailureRetried ==
    [][ /\ (TickStep /\ Failed(last', "RemoveTaint"))
            => (tainted /\ tainted' /\ lastTaintTime' = lastTaintTime)
        /\ (/\ last.kind = "tick" /\ Failed(last, "RemoveTaint")
            /\ TickStep /\ SampleBelow(last'.sample))
            => IssuedOnly(last', "RemoveTaint") ]_vars

C7_Witness ==
    /\ prev.kind = "tick" /\ Failed(prev, "RemoveTaint")
    /\ last.kind = "tick" /\ Succeeded(last, "RemoveTaint")
    /\ ~tainted

\* C8: when a tick in state Clean applied the taint successfully and the next
\* tick is overloaded too, the second tick issues no store call: one ApplyTaint
\* over the two ticks.
C8_SecondOverloadedTickAppliesNothing ==
    [][ (/\ last.kind = "tick" /\ SampleOverloaded(last.sample)
         /\ Succeeded(last, "ApplyTaint")
         /\ TickStep /\ SampleOverloaded(last'.sample))
        => last'.calls = <<>> ]_vars

C8_Witness ==
    /\ prev.kind = "tick" /\ prev.exceeded /\ Succeeded(prev, "ApplyTaint")
    /\ last.kind = "tick" /\ SampleOverloaded(last.sample) /\ last.calls = <<>>
    /\ tainted

\* what C9 calls the other combinations: neither Clean with an overloaded sample
\* nor Tainted with a sample below the thresholds and the cooldown passed
OtherCombination ==
    /\ ~(~tainted /\ SampleOverloaded(last'.sample))
    /\ ~(/\ tainted /\ SampleBelow(last'.sample)
         /\ last'.at - lastTaintTime >= config.CooldownPeriod)

\* C9 as stated: a tick issues at most one store call, ApplyTaint only from
\* Clean on an overloaded sample, RemoveTaint only from Tainted on a sample
\* below the thresholds with the cooldown passed, and in every other combination
\* no store call and no change of tainted or lastTaintTime.
C9_Original ==
    [][ TickStep
        => /\ Len(last'.calls) <= 1
           /\ Issued(last', "ApplyTaint") => (~tainted /\ SampleOverloaded(last'.sample))
           /\ Issued(last', "RemoveTaint")
                => (/\ tainted /\ SampleBelow(last'.sample)
                    /\ last'.at - lastTaintTime >= config.CooldownPeriod)
           /\ OtherCombination
                => (/\ last'.calls = <<>>
                    /\ tainted' = tainted
                    /\ lastTaintTime' = lastTaintTime) ]_vars

\* C9 (amended): as above, but in the other combinations the tick leaves tainted
\* and the node alone and changes lastTaintTime only in state Tainted on an
\* overloaded sample, where it sets it to the clock.
C9_OneCallPerTick ==
    [][ TickStep
        => /\ Len(last'.calls) <= 1
           /\ Issued(last', "ApplyTaint") => (~tainted /\ SampleOverloaded(last'.sample))
           /\ Issued(last', "RemoveTaint")
                => (/\ tainted /\ SampleBelow(last'.sample)
                    /\ last'.at - lastTaintTime >= config.CooldownPeriod)
           /\ OtherCombination
                => (/\ last'.calls = <<>>
                    /\ nodeTaints' = nodeTaints
                    /\ tainted' = tainted
                    /\ IF tainted /\ SampleOverloaded(last'.sample)
                       THEN lastTaintTime' = now'
                       ELSE lastTaintTime' = lastTaintTime) ]_vars

\* a tick in state Clean on a sample below the thresholds: nothing happened
C9_Witness ==
    /\ prev.kind = "tick" /\ Succeeded(prev, "RemoveTaint")
    /\ last.kind = "tick" /\ SampleBelow(last.sample) /\ last.calls = <<>>
    /\ ~tainted
    /\ last.at - lastTaintTime >= config.CooldownPeriod

\* C10: when the startup HasTaint reports the managed taint present, Run enters
\* the loop with tainted = TRUE and lastTaintTime equal to the startup time,
\* having made no other store call, and no tick issues RemoveTaint before
\* cooldownPeriod has passed since startup.
C10_StartupReconciliation ==
    /\ (last.kind = "start" /\ startup.found)
         => /\ pc = "loop"
            /\ tainted
            /\ lastTaintTime = startup.at
            /\ startup.at = now
            /\ IssuedOnly(last, "HasTaint")
    /\ (startup.found /\ last.kind = "tick" /\ Issued(last, "RemoveTaint"))
         => last.at - startup.at >= config.CooldownPeriod

\* the taint found at startup is removed by the first tick, cooldownPeriod later
C10_Witness ==
    /\ startup.found
    /\ prev.kind = "start"
    /\ last.kind = "tick" /\ Succeeded(last, "RemoveTaint")
    /\ last.at - startup.at = config.CooldownPeriod

\* C11: when the startup HasTaint returns an error, Run does not abort: it enters
\* the loop with tainted = FALSE and an unset lastTaintTime, and the tick that
\* follows acts as any tick in state Clean does (ApplyTaint on an overloaded
\* sample, no store call otherwise).
C11_StartupErrorTolerated ==
    [][ /\ (last'.kind = "start" /\ Failed(last', "HasTaint"))
            => /\ pc' = "loop"
               /\ ~tainted'
               /\ lastTaintTime' = ZeroTime
               /\ nodeTaints' = nodeTaints
        /\ (last.kind = "start" /\ Failed(last, "HasTaint") /\ TickStep)
            => /\ SampleOverloaded(last'.sample) => IssuedOnly(last', "ApplyTaint")
               /\ ~SampleOverloaded(last'.sample)
                    => (last'.calls = <<>> /\ ~tainted' /\ pc' = "loop") ]_vars

C11_Witness ==
    /\ prev.kind = "start" /\ Failed(prev, "HasTaint")
    /\ ~startup.found
    /\ last.kind = "tick" /\ Succeeded(last, "ApplyTaint")
    /\ tainted

\* the managed taint is on the node, as HasTaint would report it
ManagedTaintPresent == ClientHasTaint(nodeTaints, config.TaintKey, config.TaintEffect)

\* the startup HasTaint has just failed while the managed taint is on the node
StartupMissedTaint ==
    /\ last.kind = "start" /\ Failed(last, "HasTaint")
    /\ ManagedTaintPresent

\* C12: when the startup HasTaint fails while the managed taint is on the node,
\* the tainted flag eventually agrees with the node again.  Stated in the
\* claim's favour: it is enough that they agree at some later moment, and runs
\* in which Run is cancelled or a later store call fails are let off.
C12_BoundedDivergence ==
    StartupMissedTaint
        ~> \/ tainted = ManagedTaintPresent
           \/ cancelled
           \/ (last.kind = "tick" /\ last.calls # <<>> /\ ~last.calls[1].ok)

\* the step in which Run's select takes the ctx.Done() case
ShutdownStep == pc = "loop" /\ last'.kind = "shutdown"

\* C13: the shutdown handler runs once, when cancellation has been observed: in
\* state Tainted it issues exactly one RemoveTaint for the configured node, key
\* and effect, in state Clean it issues no store call and leaves the node alone;
\* whether or not the removal succeeds Run has returned, and nothing follows
\* (no retry, no second run of the handler).
C13_ShutdownOnce ==
    [][ /\ ShutdownStep
            => /\ cancelled
               /\ pc' = "done"
               /\ tainted' = tainted
               /\ IF tainted
                  THEN /\ IssuedOnly(last', "RemoveTaint")
                       /\ last'.calls[1].node = config.NodeName
                       /\ last'.calls[1].key = config.TaintKey
                       /\ last'.calls[1].effect = config.TaintEffect
                  ELSE last'.calls = <<>> /\ nodeTaints' = nodeTaints
        /\ pc # "done" ]_vars

\* Run has returned after a shutdown removal that failed: the taint is still there
C13_Witness ==
    /\ pc = "done"
    /\ last.kind = "shutdown" /\ Failed(last, "RemoveTaint")
    /\ tainted
    /\ ManagedTaintPresent

\* C14: the shutdown RemoveTaint is issued, after the cancellation, with a
\* context that is not the one Run was given and that is not done, so the call
\* is not doomed by the cancellation; every store call of a tick or of the
\* startup is issued with the context Run was given.
C14_ShutdownContextDetached ==
    \A i \in 1..Len(last.calls) :
        /\ last.kind = "shutdown"
             => /\ cancelled
                /\ last.calls[i].ctx # RunContext
                /\ ~ContextDone(last.calls[i].ctx)
        /\ last.kind \in {"start", "tick"} => last.calls[i].ctx = RunContext

\* the removal at shutdown went through although Run's context is cancelled
C14_Witness ==
    /\ last.kind = "shutdown" /\ Succeeded(last, "RemoveTaint")
    /\ ContextDone(RunContext)
    /\ prev.kind = "tick" /\ Succeeded(prev, "ApplyTaint")
    /\ ~ManagedTaintPresent

\* Run is inside its poll loop (at the select, or in a store call made from it)
InLoop == pc \in {"loop", "tick-call", "shutdown-call"}

\* C15: once the context is cancelled, Run (started with a node name) eventually
\* returns, its last step being the shutdown handler; and once the loop has
\* started Run leaves it only that way: cancelled, through the shutdown handler.
C15_RunReturnsAfterCancel ==
    /\ (cancelled /\ config.NodeName # "") ~> (pc = "done" /\ last.kind = "shutdown")
    /\ [][ (InLoop /\ ~InLoop')
            => (cancelled /\ pc' = "done" /\ last'.kind = "shutdown") ]_vars

\* Run has returned: a tick had tainted the node, the context was cancelled
\* and the removal at shutdown failed
C15_Witness ==
    /\ pc = "done"
    /\ cancelled
    /\ last.kind = "shutdown" /\ Failed(last, "RemoveTaint")
    /\ prev.kind = "tick" /\ Succeeded(prev, "ApplyTaint")

\* C16: the shutdown handler starts only from the select, never while a tick is
\* under way; a tick whose store call is in flight ends as that same tick, with
\* its call returned, whatever the signal handler does meanwhile; and once the
\* shutdown handler has started no tick starts or ends.
C16_NoPreemption ==
    [][ /\ (pc # "shutdown-call" /\ last'.kind \in {"shutdown", "shutdown-call"})
            => (pc = "loop" /\ last.kind # "tick-call")
        /\ pc = "tick-call"
            => \/ (pc' = "tick-call" /\ last' = last)
               \/ /\ pc' = "loop"
                  /\ last'.kind = "tick"
                  /\ last'.sample = last.sample
                  /\ last'.at = last.at
                  /\ IssuedOnly(last', last.calls[1].op)
        /\ pc \in {"shutdown-call", "done"}
            => (pc' \in {"shutdown-call", "done"} /\ last'.kind \in {"shutdown", "shutdown-call"})
      ]_vars

\* the cancellation came while ApplyTaint was in flight (a call issued on a
\* cancelled context fails) and the tick has completed: Run is back at the select
C16_Witness ==
    /\ pc = "loop"
    /\ ContextDone(RunContext)
    /\ last.kind = "tick" /\ Succeeded(last, "ApplyTaint")
    /\ tainted

\* C17: a tick whose sample could not be read makes no store call, leaves the
\* node, tainted and lastTaintTime as they were and leaves Run in its loop; the
\* tick after it takes a sample of its own and is decided by that sample alone.
C17_ReadErrorAbortsTick ==
    [][ /\ (TickStep /\ last'.sample.err)
            => /\ last'.calls = <<>>
               /\ nodeTaints' = nodeTaints
               /\ tainted' = tainted
               /\ lastTaintTime' = lastTaintTime
               /\ pc' = "loop"
        /\ (last.kind = "tick" /\ last.sample.err /\ TickStep /\ ~last'.sample.err)
            => /\ last'.exceeded = SampleOverloaded(last'.sample)
               /\ (~tainted /\ SampleOverloaded(last'.sample))
                    => IssuedOnly(last', "ApplyTaint")
               /\ (/\ tainted /\ SampleBelow(last'.sample)
                   /\ last'.at - lastTaintTime >= config.CooldownPeriod)
                    => IssuedOnly(last', "RemoveTaint") ]_vars

\* two ticks in state Tainted, the cooldown over before the first: the first
\* removed nothing, which with the cooldown over only a tick without a sample
\* does (waits are at most 1, so the first tick was no earlier than last.at - 1),
\* and the second, with a sample below the thresholds, removed the taint
C17_Witness ==
    /\ prev.kind = "tick" /\ ~prev.exceeded /\ prev.calls = <<>>
    /\ last.kind = "tick" /\ SampleBelow(last.sample) /\ Succeeded(last, "RemoveTaint")
    /\ last.at - lastTaintTime >= config.CooldownPeriod + 1
    /\ ~tainted

\* the load of period p of a normalised sample is strictly above, or equal to,
\* the threshold of p
NormAbove(step, p) == step.norm[p].num > config.Thresholds[p] * step.norm[p].den
NormEqual(step, p) == step.norm[p].num = config.Thresholds[p] * step.norm[p].den

\* C18: the verdict on a sample is TRUE exactly when some period has a nonzero
\* threshold and a normalised load strictly above it; in particular the verdict
\* is FALSE when every period either has threshold 0 or a load at or below it.
C18_VerdictIsStrictOr ==
    last.kind = "evaluate"
        => /\ last.exceeded
                = (\E p \in Periods : config.Thresholds[p] # 0 /\ NormAbove(last, p))
           /\ (\A p \in Periods :
                  \/ config.Thresholds[p] = 0
                  \/ NormEqual(last, p)
                  \/ ~NormAbove(last, p))
                => ~last.exceeded

\* not exceeded, with one period exactly at its threshold (6 over 2 cores
\* against 3), one above a threshold of 0 and one below its threshold
C18_Witness ==
    /\ last.kind = "evaluate"
    /\ cpuCount = 2
    /\ config.Thresholds = Thresholds(3, 0, 2)
    /\ last.sample.avg = [Load1m |-> 6, Load5m |-> 6, Load15m |-> 3]
    /\ NormEqual(last, "Load1m")
    /\ ~last.exceeded

\* no period is enabled
AllDisabled == \A p \in Periods : config.Thresholds[p] = 0

\* C19: with all three thresholds 0 no tick finds the load exceeded or issues
\* ApplyTaint, whatever the sample, so the controller is Tainted only when the
\* startup found the taint; and then a tick that reads a sample once the
\* cooldown is over issues RemoveTaint, which when it succeeds ends state Tainted.
C19_AllThresholdsZero ==
    [][ (AllDisabled /\ TickStep)
        => /\ ~last'.exceeded
           /\ ~Issued(last', "ApplyTaint")
           /\ tainted => startup.found
           /\ (/\ tainted /\ ~last'.sample.err
               /\ last'.at - lastTaintTime >= config.CooldownPeriod)
                => /\ IssuedOnly(last', "RemoveTaint")
                   /\ last'.calls[1].ok => ~tainted' ]_vars

\* the taint found at startup is removed by a tick whose loads are all high
C19_Witness ==
    /\ AllDisabled
    /\ startup.found
    /\ last.kind = "tick" /\ Succeeded(last, "RemoveTaint")
    /\ last.sample.avg = [Load1m |-> 6, Load5m |-> 6, Load15m |-> 6]
    /\ ~tainted
    /\ ~ManagedTaintPresent

\* C20: NormalizeLoadAverages returns the averages as they are when the core
\* count is 0 or negative, and otherwise each of the three divided by the core
\* count (a quotient q with q * cpuCount equal to the average).
C20_Normalization ==
    last.kind = "evaluate"
        => \A p \in Periods :
              IF cpuCount <= 0
              THEN last.norm[p] = Rat(last.sample.avg[p], 1)
              ELSE /\ last.norm[p].den > 0
                   /\ last.norm[p].num * cpuCount = last.sample.avg[p] * last.norm[p].den

\* 6, 3, 2 over two cores is 3, 3/2, 1
C20_Witness ==
    /\ last.kind = "evaluate"
    /\ cpuCount = 2
    /\ last.sample.avg = [Load1m |-> 6, Load5m |-> 3, Load15m |-> 2]
    /\ last.norm.Load1m.num = 3 * last.norm.Load1m.den
    /\ 2 * last.norm.Load5m.num = 3 * last.norm.Load5m.den
    /\ last.norm.Load15m.num = last.norm.Load15m.den

\* C21: when the controller's ApplyTaint has succeeded, the call carried the
\* value "high-load" and the node carries a taint with the configured key, the
\* value "high-load" and the configured effect.
C21_AppliedValueIsHighLoad ==
    (last.kind = "tick" /\ Succeeded(last, "ApplyTaint"))
        => /\ last.calls[1].value = "high-load"
           /\ \E i \in 1..Len(nodeTaints) :
                 nodeTaints[i] = Taint(config.TaintKey, "high-load", config.TaintEffect)

\* the calls of a step all name the configured node, key and effect
UsesConfiguredIdentity(calls) ==
    \A i \in 1..Len(calls) :
        /\ calls[i].node = config.NodeName
        /\ calls[i].key = config.TaintKey
        /\ calls[i].effect = config.TaintEffect

\* C22: every store call of a Run (the startup HasTaint, every ApplyTaint, every
\* RemoveTaint, the one at shutdown included) names the node, the taint key and
\* the taint effect of the configuration, and the configuration never changes.
C22_SingleTaintIdentity ==
    /\ [](UsesConfiguredIdentity(last.calls) /\ UsesConfiguredIdentity(prev.calls))
    /\ [][config' = config]_vars

\* a tick applied the taint and the shutdown handler removed it
C22_Witness ==
    /\ startup.done
    /\ prev.kind = "tick" /\ Succeeded(prev, "ApplyTaint")
    /\ last.kind = "shutdown" /\ Succeeded(last, "RemoveTaint")
    /\ prev.calls[1].key = last.calls[1].key
    /\ prev.calls[1].effect = last.calls[1].effect
    /\ prev.calls[1].node = last.calls[1].node

\* the client's call of op has returned without error and no other actor has
\* written the node in the run
Undisturbed(r, op) == r.stage = "done" /\ r.ext = 0 /\ r.op = op /\ r.ok

\* the taints of the list with the key and the effect of the configuration
Matching(taints) ==
    SelectSeq(taints, LAMBDA t : t.key = config.TaintKey /\ t.effect = config.TaintEffect)

\* C23: when ApplyTaint has succeeded twice in a row on a node nobody else has
\* written, the node's taints after the second call are the taints after the
\* first, and they hold exactly one taint with the key and the effect when the
\* node held at most one before the first call.
C23_ApplyTaintIdempotent ==
    (Undisturbed(request, "ApplyTaint") /\ request.first.op = "ApplyTaint"
        /\ request.first.ok)
        => /\ request.after = request.first.after
           /\ Len(Matching(request.first.before)) <= 1
                => Len(Matching(request.after)) = 1

\* C24: a RemoveTaint that fetched a node without a taint of the key and the
\* effect returns success, sends no write and leaves the node as it was; and
\* when RemoveTaint has succeeded twice in a row on a node nobody else has
\* written, the taints after the second call are the taints after the first.
C24_RemoveTaintIdempotent ==
    /\ (request.stage = "done" /\ request.op = "RemoveTaint" /\ request.fetched
            /\ Matching(request.before) = <<>>)
        => (request.ok /\ ~request.sent /\ ~request.wrote)
    /\ (Undisturbed(request, "RemoveTaint") /\ request.first.op = "RemoveTaint"
            /\ request.first.ok)
        => (request.after = request.first.after /\ ~request.sent)

\* the first RemoveTaint took two taints off the node, the second found none
C24_Witness ==
    /\ Undisturbed(request, "RemoveTaint")
    /\ request.first.op = "RemoveTaint" /\ request.first.ok /\ request.first.wrote
    /\ Len(request.first.before) = Len(request.first.after) + 2
    /\ ~request.sent /\ nodeTaints = request.first.after

\* the taints of the list with the key of the configuration and another effect
SameKeyOtherEffect(taints) ==
    SelectSeq(taints, LAMBDA t : t.key = config.TaintKey /\ t.effect # config.TaintEffect)

\* C25: on a node nobody else has written, a HasTaint that follows a successful
\* ApplyTaint reports the taint as present, whatever taints with the same key
\* and another effect the node carried; and a successful RemoveTaint leaves the
\* taints with the same key and another effect on the node.
C25_IdentityIsKeyAndEffect ==
    /\ (Undisturbed(request, "HasTaint") /\ request.first.op = "ApplyTaint"
            /\ request.first.ok)
        => request.found
    /\ Undisturbed(request, "RemoveTaint")
        => SameKeyOtherEffect(request.after) = SameKeyOtherEffect(request.before)

\* the taint another actor put on the node is in the list
HasExternal(taints) == \E i \in 1..Len(taints) : taints[i] = ExternalTaint

\* C26: an ApplyTaint or RemoveTaint whose write was sent after another actor
\* changed the node's taints since the call's read returns an error, and no
\* step of the client takes a taint that another actor added off the node.
C26_NoStaleOverwrite ==
    /\ []((request.stage = "done" /\ request.sent /\ request.changedSinceGet)
            => ~request.ok)
    /\ [][(request'.sent /\ ~request.sent /\ HasExternal(nodeTaints))
            => HasExternal(nodeTaints')]_vars

\* the taints of the list that differ from the configuration's in key or effect
Others(taints) ==
    SelectSeq(taints, LAMBDA t : t.key # config.TaintKey \/ t.effect # config.TaintEffect)

\* C27: on a node nobody else has written, a successful RemoveTaint leaves the
\* taints that differ in key or effect, in their order and nothing else, and a
\* successful ApplyTaint leaves each of them at the position it had.
C27_OtherTaintsKept ==
    /\ Undisturbed(request, "RemoveTaint")
        => (nodeTaints = Others(request.before) /\ request.after = nodeTaints)
    /\ Undisturbed(request, "ApplyTaint")
        => /\ request.after = nodeTaints
           /\ Len(nodeTaints) >= Len(request.before)
           /\ \A i \in 1..Len(request.before) :
                Others(<< request.before[i] >>) # <<>>
                    => nodeTaints[i] = request.before[i]

\* a RemoveTaint wrote the node and two other taints stayed, one of them with
\* the key and another effect
C27_Witness ==
    /\ Undisturbed(request, "RemoveTaint") /\ request.wrote
    /\ Len(request.before) = 3
    /\ nodeTaints = << OtherTaint, SameKeyTaint >>

\* C28: a HasTaint that fetched the node returns no error and TRUE exactly when
\* the node as fetched carries a taint with the key and the effect; a HasTaint
\* that could not fetch the node returns FALSE and an error.
C28_HasTaintAnswers ==
    (request.stage = "done" /\ request.op = "HasTaint")
        => IF request.fetched
           THEN /\ request.ok
                /\ request.found <=> Matching(request.before) # <<>>
           ELSE ~request.ok /\ ~request.found

\* HasTaint has answered FALSE with an error on a failed fetch, and then FALSE
\* without error on a node that carries the key with another effect
C28_Witness ==
    /\ request.stage = "done" /\ request.op = "HasTaint"
    /\ request.fetched /\ ~request.found
    /\ SameKeyOtherEffect(request.before) # <<>>
    /\ request.first.op = "HasTaint" /\ ~request.first.fetched /\ ~request.first.ok

\* the float64 is a number and at least zero
AtLeastZero(f) == ~f.nan /\ f.v >= 0
\* the float64 is other than zero
NonZero(f) == f.nan \/ f.v # 0

\* what the configuration surface asks of a Config
SurfaceValid(c) ==
    /\ 1 <= c.PollInterval /\ c.PollInterval <= 300
    /\ c.CooldownPeriod >= c.PollInterval
    /\ c.TaintEffect \in {"NoSchedule", "PreferNoSchedule", "NoExecute"}
    /\ AtLeastZero(c.Thresholds.Load1m)
    /\ AtLeastZero(c.Thresholds.Load5m)
    /\ AtLeastZero(c.Thresholds.Load15m)
    /\ \/ NonZero(c.Thresholds.Load1m)
       \/ NonZero(c.Thresholds.Load5m)
       \/ NonZero(c.Thresholds.Load15m)

\* C29: Validate returns no error exactly when the poll interval is within
\* 1s..5m, the cooldown period is at least the poll interval, the effect is one
\* of the three, every threshold is at least zero and one of them is not zero.
C29_ValidateExactly ==
    loaded.stage = "validated" => (loaded.err = "nil" <=> SurfaceValid(loaded.cfg))

\* LoadConfig has returned for a file it could read and decode
Loaded == loaded.stage = "loaded" /\ loaded.file = "ok"

\* LoadConfig returned a Config that carries the defaults and the node name of
\* the environment
ReturnedDefaults ==
    /\ loaded.err = "nil"
    /\ loaded.cfg.PollInterval = 10
    /\ loaded.cfg.CooldownPeriod = 300
    /\ loaded.cfg.TaintKey = "kube-dethrottler/high-load"
    /\ loaded.cfg.TaintEffect = "NoSchedule"
    /\ loaded.cfg.NodeName = loaded.env

\* the document sets thresholds and nothing else, each a number of at least
\* zero and one of them above zero
OnlyThresholds(doc) ==
    /\ doc = [EmptyDocument EXCEPT !.Thresholds = doc.Thresholds]
    /\ AtLeastZero(doc.Thresholds.Load1m)
    /\ AtLeastZero(doc.Thresholds.Load5m)
    /\ AtLeastZero(doc.Thresholds.Load15m)
    /\ doc.Thresholds # EmptyDocument.Thresholds

C31_NoNodeNameIsFatal ==
    /\ [](config.NodeName = ""
            => /\ pc \in {"new", "fatal"}
               /\ ~startup.done
               /\ last.calls = <<>> /\ prev.calls = <<>>
               /\ last.kind \in {"none", "fatal"})
    /\ [][config.NodeName = "" => (nodeTaints' = nodeTaints /\ pc' \in {"new", "fatal"})]_vars
    /\ [](\A i \in 1..Len(last.calls) : last.calls[i].node # "")

\* the process has ended on the missing node name, after a signal had arrived
C31_Witness ==
    /\ config.NodeName = ""
    /\ pc = "fatal" /\ last.kind = "fatal"
    /\ cancelled
    /\ ~startup.done

TickEnds ==
    /\ pc \in {"loop", "tick-call"} /\ pc' = "loop"
    /\ cancelled' = cancelled /\ last'.kind = "tick"

\* C33: in a Run with a node name that is never cancelled, in which from some
\* point on every tick reads an overloaded sample and every ApplyTaint
\* succeeds, the controller is Tainted from some point on and for good.
C33_TaintingIsLive ==
    ( /\ config.NodeName # ""
      /\ []~cancelled
      /\ <>[][TickEnds => SampleOverloaded(last'.sample)]_vars
      /\ <>[][(TickEnds /\ Issued(last', "ApplyTaint")) => last'.calls[1].ok]_vars )
        => <>[]tainted

\* the controller has become Tainted by an ApplyTaint that succeeded after the
\* one of the tick before had failed, with no cancellation
C33_Witness ==
    /\ ~cancelled /\ pc = "loop" /\ tainted
    /\ last.kind = "tick" /\ Succeeded(last, "ApplyTaint")
    /\ SampleOverloaded(last.sample)
    /\ prev.kind = "tick" /\ Failed(prev, "ApplyTaint")
    /\ ~startup.found

\* the ticks have gone on for cooldownPeriod since lastTaintTime
CooldownOver == tainted => now - lastTaintTime >= config.CooldownPeriod

\* C34: in a Run with a node name that is never cancelled, in which from some
\* point on every tick reads a sample below the thresholds and every
\* RemoveTaint succeeds, and whose ticks go on until cooldownPeriod has passed
\* since lastTaintTime, the controller is Clean from some point on: it does not
\* stay Tainted for ever.
C34_RemovalIsLive ==
    ( /\ config.NodeName # ""
      /\ []~cancelled
      /\ <>[][TickEnds => SampleBelow(last'.sample)]_vars
      /\ <>[][(TickEnds /\ Issued(last', "RemoveTaint")) => last'.calls[1].ok]_vars
      /\ <>[]CooldownOver )
        => <>[]~tainted

\* the taint the controller had applied itself is off the node: the removal
\* succeeded in the tick after the one in which it had failed
C34_Witness ==
    /\ ~cancelled /\ pc = "loop" /\ ~tainted
    /\ ~startup.found /\ lastTaintTime > StartTime
    /\ last.kind = "tick" /\ Succeeded(last, "RemoveTaint") /\ SampleBelow(last.sample)
    /\ prev.kind = "tick" /\ Failed(prev, "RemoveTaint")
    /\ ~ManagedTaintPresent

\* the store call of the step just taken did what it reported: a success left
\* the node with (ApplyTaint) or without (RemoveTaint) the managed taint, a
\* failure left the node as it was
CallFaithful ==
    /\ Succeeded(last', "ApplyTaint") => ManagedTaintPresent'
    /\ Succeeded(last', "RemoveTaint") => ~ManagedTaintPresent'
    /\ (last'.calls # <<>> /\ ~last'.calls[1].ok) => nodeTaints' = nodeTaints

\* C35: the startup whose HasTaint succeeded leaves tainted equal to "the node
\* carries the managed taint", and every tick whose store call did what it
\* reported keeps the two equal; nobody but the controller writes the node.
C35_BeliefMatchesStore ==
    [][ /\ (last'.kind = "start" /\ Succeeded(last', "HasTaint"))
            => (tainted' = ManagedTaintPresent')
        /\ (TickStep /\ tainted = ManagedTaintPresent /\ CallFaithful)
            => (tainted' = ManagedTaintPresent') ]_vars

\* startup found no taint, and the first tick has put it on the node
C35_Witness ==
    /\ prev.kind = "start" /\ Succeeded(prev, "HasTaint") /\ ~startup.found
    /\ last.kind = "tick" /\ Succeeded(last, "ApplyTaint")
    /\ tainted /\ ManagedTaintPresent

\* this step is the other actor's write: Run records nothing and the node changes
OtherWrites == last' = last /\ prev' = prev /\ nodeTaints' # nodeTaints

\* this step is one run of checkLoadAndTaint, on a node others write too
SharedTickStep == TickStep /\ ~OtherWrites

\* C36: HasTaint is called in the start of Run and nowhere else, once; a tick
\* in state Tainted issues no ApplyTaint; and when another actor has taken the
\* managed taint off the node, an overloaded tick in state Tainted makes no
\* store call and leaves the node without the taint.
C36_StoreReadOnce ==
    /\ [](last.kind = "start" => IssuedOnly(last, "HasTaint"))
    /\ [](last.kind # "start" => ~Issued(last, "HasTaint"))
    /\ [][ /\ (last'.kind = "start" /\ last' # last) => (pc = "new" /\ pc' = "loop")
           /\ (SharedTickStep /\ tainted) => ~Issued(last', "ApplyTaint")
           /\ (SharedTickStep /\ tainted /\ ~ManagedTaintPresent
                  /\ SampleOverloaded(last'.sample))
                => (last'.calls = <<>> /\ tainted' /\ ~ManagedTaintPresent') ]_vars

\* the controller applied the taint to a node without taints, another actor
\* took it off, and the overloaded tick that followed left the node bare
C36_Witness ==
    /\ prev.kind = "tick" /\ Succeeded(prev, "ApplyTaint")
    /\ last.kind = "tick" /\ SampleOverloaded(last.sample) /\ last.calls = <<>>
    /\ tainted
    /\ nodeTaints = <<>>

\* C37: lastTaintTime changes only in the start of Run that finds the taint, in
\* a tick whose ApplyTaint succeeds and in an overloaded tick in state Tainted;
\* a tick below the thresholds (a successful removal included), a failed
\* ApplyTaint, a sample that could not be read and the shutdown leave it as it
\* is; and it never decreases.
C37_LastTaintTimeWrites ==
    [][ /\ lastTaintTime' # lastTaintTime
            => \/ (pc = "new" /\ last'.kind = "start" /\ startup'.found)
               \/ (TickStep /\ Succeeded(last', "ApplyTaint"))
               \/ (TickStep /\ tainted /\ SampleOverloaded(last'.sample))
        /\ (TickStep /\ SampleBelow(last'.sample)) => lastTaintTime' = lastTaintTime
        /\ (TickStep /\ Failed(last', "ApplyTaint")) => lastTaintTime' = lastTaintTime
        /\ (TickStep /\ last'.sample.err) => lastTaintTime' = lastTaintTime
        /\ ShutdownStep => lastTaintTime' = lastTaintTime
        /\ lastTaintTime' >= lastTaintTime ]_vars

\* an overloaded tick in state Tainted moved lastTaintTime past the start, and
\* the removal that followed, cooldownPeriod later, left it there
C37_Witness ==
    /\ prev.kind = "tick" /\ prev.exceeded /\ prev.calls = <<>>
    /\ last.kind = "tick" /\ Succeeded(last, "RemoveTaint")
    /\ ~tainted
    /\ lastTaintTime > startup.at
    /\ lastTaintTime = lastOverload
    /\ lastTaintTime = last.at - config.CooldownPeriod


\* Run has returned after a cancellation, the removal of its shutdown handler
\* (if it issued one) having succeeded
ReturnedAfterCancel ==
    /\ pc = "done" /\ cancelled
    /\ last.kind = "shutdown"
    /\ last.calls # <<>> => last.calls[1].ok

\* C38: when the startup HasTaint succeeded and no other actor writes the node,
\* a Run that has returned after a cancellation, its shutdown RemoveTaint (if
\* issued) having succeeded, leaves no managed taint on the node, however the
\* cancellation is interleaved with the ticks, a cancellation that arrives
\* while a tick's ApplyTaint is in flight included.
C38_NoOrphanedTaint ==
    [](last.kind = "start" => Succeeded(last, "HasTaint"))
        => [](ReturnedAfterCancel => ~ManagedTaintPresent)

\* the gauge vector has a series for the node, and it reads v
GaugeReads(vec, node, v) == \E m \in vec : m.node = node /\ m.value = v

\* what the counter vector's series with these labels reads (0 while it has none)
CounterValue(vec, node, operation, status) ==
    IF \E m \in vec : m.node = node /\ m.operation = operation /\ m.status = status
    THEN (CHOOSE m \in vec : m.node = node /\ m.operation = operation
                                /\ m.status = status).count
    ELSE 0

\* the outcome label of a store call
StatusLabel(call) == IF call.ok THEN "success" ELSE "error"

\* C39: after every tick the gauge kube_dethrottler_node_tainted reads 1 for
\* the node when the tainted flag is true and 0 when it is false, and each
\* ApplyTaint or RemoveTaint call the tick issued has raised by one the
\* taint-operations counter labelled with the operation and its outcome.
C39_MetricsFollowController ==
    [][ TickStep
            => /\ GaugeReads(NodeTainted', config.NodeName, IF tainted' THEN 1 ELSE 0)
               /\ \A i \in 1..Len(last'.calls) :
                     CounterValue(TaintOperations', config.NodeName, last'.calls[i].op,
                                  StatusLabel(last'.calls[i]))
                       = CounterValue(TaintOperations, config.NodeName, last'.calls[i].op,
                                      StatusLabel(last'.calls[i])) + 1 ]_vars

====
